---- MODULE Spec2Model ----
(***************************************************************************)
(* Model of src/index.py: a FastAPI service with one table (grandeur), a   *)
(* session provider (get_db) and two handlers that use it (submit_form,    *)
(* health_check).                                                          *)
(*                                                                         *)
(* A request is followed from its arrival to the end of its handling.  Its *)
(* trace records, in order, every call it makes on its session, every      *)
(* exception a storage step raises, every log call and the response.       *)
(*                                                                         *)
(* Left out: created_at (a timestamp no property reads), the root route    *)
(* (no state), CORS, and exceptions raised by Session.rollback() and       *)
(* Session.close().  A commit that raises leaves no row.                   *)
(***************************************************************************)
EXTENDS Integers, Sequences, FiniteSets, TLC

(***************************************************************************)
(* Strings.  A string is a sequence of runs: n characters of class c.      *)
(* Classes: "s" whitespace, "d" decimal digit, "a" letter, "@" and ".".    *)
(* Adjacent runs have different classes.                                   *)
(***************************************************************************)
Run(c, n) == [c |-> c, n |-> n]

RECURSIVE StrLen(_)
StrLen(s) == IF s = <<>> THEN 0 ELSE Head(s).n + StrLen(Tail(s))

RECURSIVE LStrip(_)
LStrip(s) == IF s # <<>> /\ Head(s).c = "s" THEN LStrip(Tail(s)) ELSE s

RECURSIVE RStrip(_)
RStrip(s) ==
    IF s # <<>> /\ s[Len(s)].c = "s" THEN RStrip(SubSeq(s, 1, Len(s) - 1)) ELSE s

\* ConfigDict(str_strip_whitespace=True): every str field is stripped of
\* leading and trailing whitespace before its constraints are applied.
Strip(s) == RStrip(LStrip(s))

\* Field(min_length=1, max_length=255)
MinNameLen == 1
MaxNameLen == 255
\* Field(pattern=r"^\d{10}$")
NumberDigits == 10

\* (variant: the name is not checked)
ValidNameAny(s) == TRUE
ValidName(s) ==
    LET t == Strip(s) IN StrLen(t) >= MinNameLen /\ StrLen(t) <= MaxNameLen

ValidNumber(s) ==
    LET t == Strip(s)
    IN  /\ \A i \in 1..Len(t) : t[i].c = "d"
        /\ StrLen(t) = NumberDigits

\* A dot-atom: letters separated by single dots, no dot first or last.
DotAtom(t) ==
    /\ t # <<>>
    /\ \A i \in 1..Len(t) : t[i].c \in {"a", "."}
    /\ \A i \in 1..Len(t) : t[i].c = "." => t[i].n = 1
    /\ t[1].c = "a"
    /\ t[Len(t)].c = "a"

\* EmailStr: one "@", a dot-atom before it, a dot-atom holding at least one
\* dot after it (the address grammar, without its length limits).
ValidEmail(s) ==
    LET t  == Strip(s)
        at == {i \in 1..Len(t) : t[i].c = "@"}
    IN  /\ Cardinality(at) = 1
        /\ \A k \in at :
              /\ t[k].n = 1
              /\ DotAtom(SubSeq(t, 1, k - 1))
              /\ DotAtom(SubSeq(t, k + 1, Len(t)))
              /\ \E i \in (k + 1)..Len(t) : t[i].c = "."

\* FormData: the body is accepted when its three fields are.
Valid(b) == ValidName(b.name) /\ ValidEmail(b.email) /\ ValidNumber(b.number)

\* The validated FormData value: the stripped fields.
Parsed(b) ==
    [name |-> Strip(b.name), email |-> Strip(b.email), number |-> Strip(b.number)]

(***************************************************************************)
(* Request bodies offered to POST /submit-form.                            *)
(***************************************************************************)
OkName   == <<Run("a", 1)>>
OkEmail  == <<Run("a", 1), Run("@", 1), Run("a", 1), Run(".", 1), Run("a", 1)>>
OkNumber == <<Run("d", 10)>>

Body(n, e, d) == [name |-> n, email |-> e, number |-> d]

Bodies ==
    { Body(<<Run("s", 1), Run("a", 255), Run("s", 1)>>, OkEmail, OkNumber),
      Body(OkName, <<Run("s", 1)>> \o OkEmail,
           <<Run("s", 1), Run("d", 10), Run("s", 1)>>),
      Body(<<>>, OkEmail, OkNumber),
      Body(<<Run("s", 2)>>, OkEmail, OkNumber),
      Body(<<Run("a", 256)>>, OkEmail, OkNumber),
      Body(OkName, <<Run("a", 1)>>, OkNumber),
      Body(OkName, OkEmail, <<Run("d", 5)>>),
      Body(OkName, OkEmail, <<Run("d", 9), Run("a", 1)>>) }

NoBody == Body(<<>>, <<>>, <<>>)

(***************************************************************************)
(* Responses.                                                              *)
(***************************************************************************)
DbDetail         == "Database error occurred while submitting the form"
UnexpectedDetail == "An unexpected error occurred while processing your request"
UnavailableDetail == "Service unavailable"
ServerErrorDetail == "Internal Server Error"

Response(st, det, id) == [status |-> st, detail |-> det, record_id |-> id]
NoResponse == Response(0, "", 0)

\* What the route produced: nothing yet, a returned payload, or an exception.
NoOut         == [kind |-> "none",   exc |-> "",    resp |-> NoResponse]
Return(rsp)   == [kind |-> "return", exc |-> "",    resp |-> rsp]
Raise(e, rsp) == [kind |-> "raise",  exc |-> e,     resp |-> rsp]

(***************************************************************************)
(* The framework.  src/index.py imports fastapi without fixing a release,  *)
(* and two things the releases differ in reach this program:               *)
(*   reraises  an exception that a yield-dependency caught and did not     *)
(*             raise again still reaches the exception handlers (releases  *)
(*             before 0.110); otherwise the route ends with no response    *)
(*             and the client gets a plain 500                             *)
(*   inside    a body validation error is raised while the dependency is   *)
(*             still suspended at its yield, so it is thrown into it;      *)
(*             otherwise the dependency is resumed normally first          *)
(* In every release the dependencies of a route are entered before its     *)
(* body is validated.                                                      *)
(***************************************************************************)
Build(rr, ins) == [reraises |-> rr, inside |-> ins]

Builds == {Build(TRUE, TRUE), Build(FALSE, TRUE), Build(FALSE, FALSE)}

(***************************************************************************)
(* State.                                                                  *)
(***************************************************************************)
NumReq == 2
Reqs == 1..NumReq
\* At most MaxFaults storage calls raise in one run.
MaxFaults == 1

VARIABLES
    build,     \* the framework release the process runs on
    rows,      \* table grandeur: the committed rows, in insertion order
    nextId,    \* the next value of the id column
    kind,      \* kind[r]: "submit" or "health" ("" before the request arrives)
    body,      \* body[r]: the request body
    pc,        \* pc[r]: where request r stands
    sess,      \* sess[r]: "none", "open", "closed": the session get_db made
    pending,   \* pending[r]: the session holds an added, uncommitted entry
    out,       \* out[r]: what the route produced
    swallowed, \* swallowed[r]: get_db caught the route's exception
    resp,      \* resp[r]: the response sent to the client
    trace,     \* trace[r]: the calls, raises and log entries of request r
    faults     \* the number of storage calls that have raised

vars == <<build, rows, nextId, kind, body, pc, sess, pending, out, swallowed,
          resp, trace, faults>>

Init ==
    /\ build \in Builds
    /\ rows = <<>>
    /\ nextId = 1
    /\ kind = [r \in Reqs |-> ""]
    /\ body = [r \in Reqs |-> NoBody]
    /\ pc = [r \in Reqs |-> "new"]
    /\ sess = [r \in Reqs |-> "none"]
    /\ pending = [r \in Reqs |-> FALSE]
    /\ out = [r \in Reqs |-> NoOut]
    /\ swallowed = [r \in Reqs |-> FALSE]
    /\ resp = [r \in Reqs |-> NoResponse]
    /\ trace = [r \in Reqs |-> <<>>]
    /\ faults = 0

Log(r, events) == trace' = [trace EXCEPT ![r] = @ \o events]

\* A storage call raises.
Fault == faults < MaxFaults /\ faults' = faults + 1

\* A request for route k arrives and get_db runs up to its yield:
\* db = SessionLocal().  The call is outside every try block, so an
\* exception it raises leaves get_db and the route, and the framework answers
\* with its plain 500.  Requests are numbered in order of arrival.
Acquire(r) ==
    /\ pc[r] = "new"
    /\ r > 1 => pc[r - 1] # "new"
    /\ \E k \in {"submit", "health"} :
        /\ kind' = [kind EXCEPT ![r] = k]
        /\ \/ /\ sess' = [sess EXCEPT ![r] = "open"]
              /\ pc' = [pc EXCEPT ![r] = IF k = "submit" THEN "validate" ELSE "handler"]
              /\ Log(r, <<"SessionLocal">>)
              /\ UNCHANGED <<out, resp, faults>>
           \/ /\ Fault
              /\ out' = [out EXCEPT ![r] =
                           Raise("Exception", Response(500, ServerErrorDetail, 0))]
              /\ resp' = [resp EXCEPT ![r] = Response(500, ServerErrorDetail, 0)]
              /\ pc' = [pc EXCEPT ![r] = "done"]
              /\ Log(r, <<"SessionLocal", "raise.Exception", "respond">>)
              /\ UNCHANGED sess
    /\ UNCHANGED <<build, rows, nextId, body, pending, swallowed>>

\* data: FormData.  The body b of the request is validated once the
\* dependencies are entered; a rejected body never reaches submit_form.
Validate(r) ==
    /\ pc[r] = "validate"
    /\ \E b \in Bodies :
        /\ body' = [body EXCEPT ![r] = b]
        /\ IF Valid(b)
             THEN /\ pc' = [pc EXCEPT ![r] = "add"]
                  /\ UNCHANGED out
             ELSE /\ pc' = [pc EXCEPT ![r] = "returned"]
                  /\ out' = [out EXCEPT ![r] =
                               Raise("RequestValidationError",
                                     Response(422, "validation", 0))]
    /\ UNCHANGED <<build, rows, nextId, kind, sess, pending, swallowed, resp, trace, faults>>

(***************************************************************************)
(* Storage.                                                                *)
(***************************************************************************)
\* Grandeur(name=data.name, email=data.email, phone_number=data.number); the
\* id column is filled by the table when the row is inserted.  req names the
\* request whose session inserted the row.
\* (variant: the row is built from the raw body, not from the validated data)
NewRowRaw(id, b, r) ==
    [id |-> id, name |-> b.name, email |-> b.email, phone_number |-> b.number,
     req |-> r]
NewRow(id, b, r) ==
    [id |-> id, name |-> Parsed(b).name, email |-> Parsed(b).email,
     phone_number |-> Parsed(b).number, req |-> r]

\* Column(Integer, primary_key=True): each insert takes the next id.
\* (variant: the id does not advance)
SameId(id) == id
FollowingId(id) == id + 1

\* Session.commit(): the session's pending entry, if any, becomes a row.
Flush(rws, id, p, b, r) == IF p THEN Append(rws, NewRow(id, b, r)) ELSE rws

\* form_entry.id after db.refresh(form_entry)
EntryId(r) == (CHOOSE i \in 1..Len(rows) : rows[i].req = r)

(***************************************************************************)
(* submit_form.  Each storage call ends well or raises: a SQLAlchemyError  *)
(* or some other exception.                                                *)
(***************************************************************************)
Errors == {"SQLAlchemyError", "Exception"}

\* The two except clauses: the detail of the HTTPException raised.
Detail(e) == IF e = "SQLAlchemyError" THEN DbDetail ELSE UnexpectedDetail

\* A storage call op of submit_form raised e: the except clause logs the
\* error and raises HTTPException(500).
Caught(r, op, e) ==
    /\ Fault
    /\ Log(r, <<op, "raise." \o e, "logger.error">>)
    /\ out' = [out EXCEPT ![r] = Raise("HTTPException", Response(500, Detail(e), 0))]
    /\ pc' = [pc EXCEPT ![r] = "returned"]

\* db.add(form_entry)
Add(r) ==
    /\ pc[r] = "add"
    /\ \/ /\ pending' = [pending EXCEPT ![r] = TRUE]
          /\ pc' = [pc EXCEPT ![r] = "commit"]
          /\ Log(r, <<"add">>)
          /\ UNCHANGED <<out, faults>>
       \/ \E e \in Errors :
            /\ Caught(r, "add", e)
            /\ UNCHANGED pending
    /\ UNCHANGED <<build, rows, nextId, kind, body, sess, swallowed, resp>>

\* db.commit()
Commit(r) ==
    /\ pc[r] = "commit"
    /\ \/ /\ rows' = Flush(rows, nextId, pending[r], body[r], r)
          /\ nextId' = FollowingId(nextId)
          /\ pending' = [pending EXCEPT ![r] = FALSE]
          /\ pc' = [pc EXCEPT ![r] = "refresh"]
          /\ Log(r, <<"commit">>)
          /\ UNCHANGED <<out, faults>>
       \/ \E e \in Errors :
            /\ Caught(r, "commit", e)
            /\ UNCHANGED <<rows, nextId, pending>>
    /\ UNCHANGED <<build, kind, body, sess, swallowed, resp>>

\* db.refresh(form_entry), then the success log and the returned payload
Refresh(r) ==
    /\ pc[r] = "refresh"
    /\ \/ /\ out' = [out EXCEPT ![r] =
                       Return(Response(201, "Form submitted successfully!",
                                       rows[EntryId(r)].id))]
          /\ pc' = [pc EXCEPT ![r] = "returned"]
          /\ Log(r, <<"refresh", "logger.info">>)
          /\ UNCHANGED faults
       \/ \E e \in Errors : Caught(r, "refresh", e)
    /\ UNCHANGED <<build, rows, nextId, kind, body, sess, pending, swallowed, resp>>

(***************************************************************************)
(* health_check.  The try block holds a return of a constant alone, which  *)
(* cannot raise: the except clause (503) is never entered.                 *)
(***************************************************************************)
Health(r) ==
    /\ pc[r] = "handler"
    /\ out' = [out EXCEPT ![r] = Return(Response(200, "healthy", 0))]
    /\ pc' = [pc EXCEPT ![r] = "returned"]
    /\ UNCHANGED <<build, rows, nextId, kind, body, sess, pending, swallowed, resp, trace, faults>>

(***************************************************************************)
(* get_db after its yield, and the response.                               *)
(***************************************************************************)
\* The route's exception is thrown into get_db at its yield.
Thrown(r) ==
    /\ out[r].kind = "raise"
    /\ out[r].exc = "RequestValidationError" => build.inside

\* The session calls of get_db after the yield: rollback in the bare except
\* clause, commit otherwise (and rollback if that commit raises), close in
\* the finally clause.
\* (variants: the finally clause is missing; the rollback is missing)
ExitCallsNoClose(thrown, commitOk) ==
    IF thrown THEN <<"get_db.rollback">>
    ELSE IF commitOk THEN <<"get_db.commit">>
    ELSE <<"get_db.commit", "raise.SQLAlchemyError", "get_db.rollback">>
ExitCallsNoRollback(thrown, commitOk) ==
    IF thrown THEN <<"get_db.close">>
    ELSE IF commitOk THEN <<"get_db.commit", "get_db.close">>
    ELSE <<"get_db.commit", "raise.SQLAlchemyError", "get_db.close">>
ExitCalls(thrown, commitOk) ==
    IF thrown THEN <<"get_db.rollback", "get_db.close">>
    ELSE IF commitOk THEN <<"get_db.commit", "get_db.close">>
    ELSE <<"get_db.commit", "raise.SQLAlchemyError", "get_db.rollback", "get_db.close">>

\* The commit of get_db reaches the database only when the session is in a
\* transaction, which the read-back of submit_form began.
InTransaction(r) == kind[r] = "submit" /\ out[r].kind = "return"

\* What the client receives: the route's payload or its exception's
\* response; the plain 500 when get_db caught the exception and the release
\* does not raise it again.
Delivered(b, sw, o) ==
    IF sw /\ ~b.reraises THEN Response(500, ServerErrorDetail, 0) ELSE o.resp

\* The route is left: get_db runs from its yield to its end, then the
\* framework sends the response.
Finish(r) ==
    /\ pc[r] = "returned"
    /\ sess[r] = "open"
    /\ \/ /\ Thrown(r)
          /\ Log(r, ExitCalls(TRUE, TRUE) \o <<"respond">>)
          /\ UNCHANGED <<rows, nextId, faults>>
       \/ /\ ~Thrown(r)
          /\ Log(r, ExitCalls(FALSE, TRUE) \o <<"respond">>)
          /\ rows' = Flush(rows, nextId, pending[r], body[r], r)
          /\ nextId' = IF pending[r] THEN FollowingId(nextId) ELSE nextId
          /\ UNCHANGED faults
       \/ /\ ~Thrown(r)
          /\ InTransaction(r)
          /\ Fault
          /\ Log(r, ExitCalls(FALSE, FALSE) \o <<"respond">>)
          /\ UNCHANGED <<rows, nextId>>
    /\ swallowed' = [swallowed EXCEPT ![r] = Thrown(r)]
    /\ resp' = [resp EXCEPT ![r] = Delivered(build, Thrown(r), out[r])]
    /\ pending' = [pending EXCEPT ![r] = FALSE]
    /\ sess' = [sess EXCEPT ![r] = "closed"]
    /\ pc' = [pc EXCEPT ![r] = "done"]
    /\ UNCHANGED <<build, kind, body, out>>

Next ==
    \E r \in Reqs :
        \/ Acquire(r)
        \/ Validate(r)
        \/ Add(r)
        \/ Commit(r)
        \/ Refresh(r)
        \/ Health(r)
        \/ Finish(r)

Spec == Init /\ [][Next]_vars

(***************************************************************************)
(* Vocabulary of the properties.                                           *)
(***************************************************************************)
Has(r, ev) == \E i \in 1..Len(trace[r]) : trace[r][i] = ev
Count(r, ev) == Cardinality({i \in 1..Len(trace[r]) : trace[r][i] = ev})
Before(r, ev1, ev2) ==
    \E i, j \in 1..Len(trace[r]) : i < j /\ trace[r][i] = ev1 /\ trace[r][j] = ev2

\* The call op of request r raised e.
Raised(r, op, e) ==
    \E i \in 1..(Len(trace[r]) - 1) :
        trace[r][i] = op /\ trace[r][i + 1] = "raise." \o e
\* The call op of request r was made and did not raise.
Succeeded(r, op) == Has(r, op) /\ \A e \in Errors : ~Raised(r, op, e)

HandlerCalls == {"add", "commit", "refresh"}
Finished(r) == pc[r] = "done"
RowsOf(r) == {i \in 1..Len(rows) : rows[i].req = r}

AllDigits(s) == \A i \in 1..Len(s) : s[i].c = "d"
\* The field rules as the specification words them.
NameBroken(b) == StrLen(Strip(b.name)) = 0 \/ StrLen(Strip(b.name)) > 255
NumberBroken(b) == ~AllDigits(b.number) \/ StrLen(b.number) # 10
NumberBrokenStripped(b) == ~AllDigits(Strip(b.number)) \/ StrLen(Strip(b.number)) # 10
SaidValid(b) == ~NameBroken(b) /\ ValidEmail(b.email) /\ ~NumberBroken(b)
SaidInvalid(b) == NameBroken(b) \/ ~ValidEmail(b.email) \/ NumberBroken(b)

(***************************************************************************)
(* C1: a finished submission with valid input whose storage calls all      *)
(* succeeded is answered 201 with a record_id that is positive and differs *)
(* from the record_id of every other answered submission.                  *)
(***************************************************************************)
C1_FreshRecordId ==
    \A r \in Reqs :
        ( /\ Finished(r)
          /\ kind[r] = "submit"
          /\ SaidValid(body[r])
          /\ \A op \in {"SessionLocal"} \cup HandlerCalls : Succeeded(r, op) )
        => /\ resp[r].status = 201
           /\ resp[r].record_id > 0
           /\ \A q \in Reqs \ {r} :
                (Has(q, "respond") /\ resp[q].status = 201)
                => resp[q].record_id # resp[r].record_id

C1_Witness ==
    \E r, q \in Reqs :
        /\ r # q
        /\ Finished(r) /\ Finished(q)
        /\ resp[r].status = 201 /\ resp[q].status = 201
        /\ StrLen(body[r].name) > 255 /\ StrLen(body[q].name) > 255

(***************************************************************************)
(* C2: every submission that breaks a field rule is answered 422 and       *)
(* leaves no row.                                                          *)
(***************************************************************************)
C2_InvalidRejected422 ==
    \A r \in Reqs :
        (Finished(r) /\ kind[r] = "submit" /\ body[r] # NoBody /\ SaidInvalid(body[r]))
        => (resp[r].status = 422 /\ RowsOf(r) = {})

(***************************************************************************)
(* C3: a request that acquired a session: if the handler returned, get_db  *)
(* commits; if the handler raised or that commit raised, get_db rolls      *)
(* back; and on every route the session is closed exactly once, after the  *)
(* commit or rollback and before the handling of the request is over.      *)
(***************************************************************************)
C3_ScopedSession ==
    \A r \in Reqs :
        /\ Count(r, "get_db.close") <= 1
        /\ (sess[r] # "none" /\ Finished(r)) =>
              /\ Count(r, "get_db.close") = 1
              /\ Before(r, "get_db.close", "respond")
              /\ ~Before(r, "get_db.close", "get_db.commit")
              /\ ~Before(r, "get_db.close", "get_db.rollback")
              /\ out[r].kind = "return" => Has(r, "get_db.commit")
              /\ (out[r].exc = "HTTPException"
                    \/ Raised(r, "get_db.commit", "SQLAlchemyError"))
                 => Before(r, "get_db.rollback", "get_db.close")
        /\ Finished(r) => (sess[r] # "open" /\ ~Before(r, "respond", "get_db.close"))
        /\ sess[r] = "closed" <=> Has(r, "get_db.close")

C3_Witness ==
    \E r \in Reqs :
        /\ Finished(r)
        /\ Raised(r, "get_db.commit", "SQLAlchemyError")
        /\ Before(r, "get_db.rollback", "get_db.close")

(***************************************************************************)
(* C4: a SQLAlchemyError in add, commit or refresh is answered 500 with    *)
(* the database-error detail, any other exception there 500 with the       *)
(* unexpected-error detail, and the detail never is the error's own text.  *)
(***************************************************************************)
C4_GenericDetails ==
    \A r \in Reqs :
        Finished(r) =>
            \A op \in HandlerCalls :
                /\ Raised(r, op, "SQLAlchemyError")
                     => resp[r] = Response(500, DbDetail, 0)
                /\ Raised(r, op, "Exception")
                     => resp[r] = Response(500, UnexpectedDetail, 0)
                /\ resp[r].detail \notin Errors

(***************************************************************************)
(* C5: when a storage call of submit_form raises a SQLAlchemyError, the    *)
(* session is rolled back before the 500 response is sent.                 *)
(***************************************************************************)
C5_RollbackBeforeResponse ==
    \A r \in Reqs :
        (Has(r, "respond") /\ \E op \in HandlerCalls : Raised(r, op, "SQLAlchemyError"))
        => /\ resp[r].status = 500
           /\ Before(r, "get_db.rollback", "respond")

C5_Witness ==
    \E r \in Reqs :
        /\ Finished(r)
        /\ Raised(r, "commit", "SQLAlchemyError")
        /\ resp[r].status = 500

(***************************************************************************)
(* C6: GET /health answers 200 {"status": "healthy"} when obtaining the    *)
(* session succeeds, 503 "Service unavailable" when obtaining it raises,   *)
(* and nothing else.                                                       *)
(***************************************************************************)
C6_HealthStatuses ==
    \A r \in Reqs :
        (Finished(r) /\ kind[r] = "health") =>
            /\ Succeeded(r, "SessionLocal") => resp[r] = Response(200, "healthy", 0)
            /\ Raised(r, "SessionLocal", "Exception")
                 => resp[r] = Response(503, UnavailableDetail, 0)
            /\ resp[r].status \in {200, 503}

\* The field rules as the code applies them: to the stripped fields.
Rejectable(b) == NameBroken(b) \/ ~ValidEmail(b.email) \/ NumberBrokenStripped(b)

(***************************************************************************)
(* C7, as claimed: for a submission whose body breaks a field rule, no     *)
(* session is acquired and no add, commit or rollback is issued before the *)
(* rejection.                                                              *)
(***************************************************************************)
C7_NoSessionOnInvalid ==
    \A r \in Reqs :
        (kind[r] = "submit" /\ body[r] # NoBody /\ Rejectable(body[r])) =>
            \A ev \in {"SessionLocal", "add", "commit", "get_db.commit", "get_db.rollback"} :
                ~Has(r, ev)

(***************************************************************************)
(* C7, amended: a submission whose body breaks a field rule (after         *)
(* stripping) never enters submit_form: no add, commit or refresh is       *)
(* issued, nothing is logged and no row is written.  Its session was       *)
(* acquired before the validation and is released by get_db (a commit or a *)
(* rollback of the untouched session, then close) before the rejection is  *)
(* sent.                                                                   *)
(***************************************************************************)
C7_InvalidNeverReachesHandler ==
    \A r \in Reqs :
        (kind[r] = "submit" /\ body[r] # NoBody /\ Rejectable(body[r])) =>
            /\ \A ev \in HandlerCalls \cup {"logger.info", "logger.error"} : ~Has(r, ev)
            /\ RowsOf(r) = {}
            /\ trace[r][1] = "SessionLocal"
            /\ Has(r, "respond") =>
                  /\ Before(r, "get_db.close", "respond")
                  /\ Has(r, "get_db.commit") \/ Has(r, "get_db.rollback")
                  /\ resp[r].status \in {422, 500}

C7_Witness ==
    \E r \in Reqs :
        /\ Finished(r)
        /\ Rejectable(body[r]) /\ body[r] # NoBody
        /\ sess[r] = "closed"
        /\ Has(r, "get_db.rollback")

(***************************************************************************)
(* C8: every exception raised while a request that holds a session is      *)
(* handled is followed by an error log entry before the handling ends.     *)
(***************************************************************************)
C8_EveryFailureLogged ==
    \A r \in Reqs :
        (Finished(r) /\ sess[r] # "none") =>
            \A i \in 1..Len(trace[r]) :
                trace[r][i] \in {"raise." \o e : e \in Errors}
                => \E j \in (i + 1)..Len(trace[r]) : trace[r][j] = "logger.error"

(***************************************************************************)
(* C9: every row is the row of exactly one submission that passed          *)
(* validation, holds that submission's validated fields (a name of 1 to    *)
(* 255 characters, a valid email, a phone_number of exactly 10 digits),    *)
(* no request has more than one row, ids are unique, and a stored row is   *)
(* never changed or removed.                                               *)
(***************************************************************************)
C9_RowsAreSubmissions ==
    /\ \A i \in 1..Len(rows) :
          LET w == rows[i]
              b == body[w.req]
          IN  /\ kind[w.req] = "submit"
              /\ ~Rejectable(b)
              /\ Succeeded(w.req, "add")
              /\ Has(w.req, "commit")
              /\ w.name = Strip(b.name)
              /\ w.email = Strip(b.email)
              /\ w.phone_number = Strip(b.number)
              /\ StrLen(w.name) \in 1..255
              /\ w.name[1].c # "s" /\ w.name[Len(w.name)].c # "s"
              /\ ValidEmail(w.email) /\ w.email[1].c # "s"
              /\ AllDigits(w.phone_number) /\ StrLen(w.phone_number) = 10
              /\ w.id > 0
    /\ \A i, j \in 1..Len(rows) :
          i # j => (rows[i].req # rows[j].req /\ rows[i].id # rows[j].id)

C9_RowsKept ==
    /\ Len(rows') >= Len(rows)
    /\ SubSeq(rows', 1, Len(rows)) = rows

\* C9: the rows are such submissions in every state, and every step keeps
\* the rows already stored.
C9_StoredRows == [](C9_RowsAreSubmissions) /\ [][C9_RowsKept]_vars

C9_Witness ==
    /\ Len(rows) = 2
    /\ \E i \in 1..2 : body[rows[i].req].number # rows[i].phone_number
    /\ \A r \in Reqs : Finished(r)

(***************************************************************************)
(* C10: a finished submission has a row if and only if it was answered     *)
(* 201, and the commit of get_db never adds a row.                         *)
(***************************************************************************)
C10_RowIffCreated ==
    \A r \in Reqs :
        /\ (Finished(r) /\ kind[r] = "submit")
              => (RowsOf(r) # {} <=> resp[r].status = 201)
        /\ RowsOf(r) # {} => Succeeded(r, "commit")

====
